---- MODULE Spec2Model ----
(***************************************************************************)
(* Starstream Core: the intent control plane (Engine, Planner) of          *)
(* examples/intent_control_plane_mvp.py and the scheduler baselines        *)
(* (ConstrainedBestScore, ConstrainedEpsilonGreedy) of                     *)
(* examples/scheduler_baselines.py.                                        *)
(*                                                                         *)
(* Units.  Losses are in thousandths (0.020 is 20), utilisation in         *)
(* hundredths.  Timestamps (time.time()) are not modelled: no decision of  *)
(* the code reads them.  uuid4 identifiers are modelled as values that are *)
(* distinct per invocation.                                                *)
(***************************************************************************)
EXTENDS Integers, Sequences, FiniteSets, TLC

\* ------------------------------------------------------------------ bounds

\* Number of submit_intent invocations (each may run on a thread of its own).
MaxCalls == 2

Calls == 1..MaxCalls

\* ------------------------------------------------------------ engine data

\* A Python dict seen as a function; binding a key adds it or overwrites it.
Bind(f, k, v) == [x \in (DOMAIN f) \cup {k} |-> IF x = k THEN v ELSE f[x]]

EmptyDict == [x \in {} |-> x]

\* Optional[float]: None is the empty sequence, a value v is <<v>>.
None == << >>

\* dict.get(key) with the default None.
Get(d, k) == IF k \in DOMAIN d THEN d[k] ELSE None

\* Policy(): the defaults, and the same with verification switched off.
Policies ==
  { [max_link_utilization |-> 85, max_packet_loss |-> 20, require_verification |-> rv]
      : rv \in BOOLEAN }

\* The intents a caller builds before it submits them: Intent.bandwidth(...)
\* with and without max_latency_ms, a bandwidth intent whose payload lacks a
\* required field or carries no max_latency_ms key, and an intent of another
\* kind.  The intent of invocation c has intent_id c (uuid4: distinct).
IntentShapes ==
  { [kind |-> "bandwidth",
     payload |-> [source |-> "A", destination |-> "C", bandwidth_gbps |-> 50,
                  max_latency_ms |-> <<25>>, priority |-> 5]],
    [kind |-> "bandwidth",
     payload |-> [source |-> "A", destination |-> "B", bandwidth_gbps |-> 10]],
    [kind |-> "bandwidth",
     payload |-> [source |-> "A", bandwidth_gbps |-> 10, max_latency_ms |-> None,
                  priority |-> 3]],
    [kind |-> "latency",
     payload |-> [source |-> "A", destination |-> "C", bandwidth_gbps |-> 50,
                  max_latency_ms |-> <<25>>, priority |-> 5]] }

MkIntent(c, shape) ==
  [intent_id |-> c, kind |-> shape.kind, payload |-> shape.payload]

\* The link_loss dicts a telemetry provider may return, each in its iteration
\* (insertion) order as a sequence of <<link, loss>> items: SimTelemetry's
\* (A-C above the default threshold), one with no entry for link A-C and a
\* loss equal to the default threshold, and one with two losses above it.
LossDicts ==
  { << <<"AB", 5>>, <<"BC", 10>>, <<"AC", 30>> >>,
    << <<"AB", 5>>, <<"BC", 20>> >>,
    << <<"AC", 30>>, <<"AB", 25>> >> }

\* The readings offered to the before-snapshot: a lossy and a clean one.
BeforeLossDicts ==
  { << <<"AB", 5>>, <<"BC", 10>>, <<"AC", 30>> >>,
    << <<"AB", 5>>, <<"BC", 20>> >> }

MkSnapshot(losses) == [link_loss |-> losses]

\* ---------------------------------------------------------------- planner

RequiredFields == {"source", "destination", "bandwidth_gbps"}

\* Planner.plan raises ValueError for a kind other than "bandwidth" and
\* KeyError when payload[...] finds no such key; "" when it returns a Plan.
PlanError(intent) ==
  IF intent.kind # "bandwidth" THEN "ValueError"
  ELSE IF ~(RequiredFields \subseteq DOMAIN intent.payload) THEN "KeyError"
  ELSE ""

\* uuid4() inside Planner.plan for invocation c: distinct from every other
\* plan id and from the intent ids.
PlanId(c) == MaxCalls + c

\* Planner.plan emitting the flow in the reverse direction.
PlannerPlanReversed(c, intent, pol) ==
  [plan_id |-> PlanId(c),
   intent_id |-> intent.intent_id,
   actions |->
     << [action_type |-> "allocate_flow",
         params |-> [source |-> intent.payload.destination,
                     destination |-> intent.payload.source,
                     bandwidth_gbps |-> intent.payload.bandwidth_gbps,
                     max_latency_ms |-> Get(intent.payload, "max_latency_ms"),
                     policy_max_util |-> pol.max_link_utilization,
                     policy_max_loss |-> pol.max_packet_loss]] >>,
   expected_impact |-> [goal |-> "satisfy_bandwidth_intent",
                        notes |-> "MVP stub planner emits allocate_flow action."]]

\* The Plan Planner.plan returns when it does not raise.
PlannerPlan(c, intent, pol) ==
  [plan_id |-> PlanId(c),
   intent_id |-> intent.intent_id,
   actions |->
     << [action_type |-> "allocate_flow",
         params |-> [source |-> intent.payload.source,
                     destination |-> intent.payload.destination,
                     bandwidth_gbps |-> intent.payload.bandwidth_gbps,
                     max_latency_ms |-> Get(intent.payload, "max_latency_ms"),
                     policy_max_util |-> pol.max_link_utilization,
                     policy_max_loss |-> pol.max_packet_loss]] >>,
   expected_impact |-> [goal |-> "satisfy_bandwidth_intent",
                        notes |-> "MVP stub planner emits allocate_flow action."]]

\* ----------------------------------------------------------- verification

\* Index of the first item of the loss dict, in iteration order, whose loss is
\* strictly above the threshold; 0 when there is none (the for loop ends).
RECURSIVE FirstViolation(_, _, _)
FirstViolation(losses, limit, i) ==
  IF i > Len(losses) THEN 0
  ELSE IF losses[i][2] > limit THEN i
  ELSE FirstViolation(losses, limit, i + 1)

\* Verify with the comparison of line 220 changed to >=.
VerifyInclusive(after, pol) ==
  LET bad == {i \in 1..Len(after.link_loss) :
                after.link_loss[i][2] >= pol.max_packet_loss}
      v == IF pol.require_verification /\ bad # {}
           THEN CHOOSE i \in bad : \A j \in bad : i <= j
           ELSE 0
  IN  IF v = 0
      THEN [ok |-> TRUE, msg |-> [text |-> "applied"]]
      ELSE [ok |-> FALSE,
            msg |-> [text |-> "verification_failed",
                     loss |-> after.link_loss[v][2],
                     limit |-> pol.max_packet_loss]]

\* ok and msg as lines 214-223 leave them.
Verify(after, pol) ==
  LET v == IF pol.require_verification
           THEN FirstViolation(after.link_loss, pol.max_packet_loss, 1)
           ELSE 0
  IN  IF v = 0
      THEN [ok |-> TRUE, msg |-> [text |-> "applied"]]
      ELSE [ok |-> FALSE,
            msg |-> [text |-> "verification_failed",
                     loss |-> after.link_loss[v][2],
                     limit |-> pol.max_packet_loss]]

\* ------------------------------------------------------------ engine state

VARIABLES
  policy,      \* Engine.policy, fixed at construction
  audit_log,   \* Engine.audit_log
  pc,          \* where each submit_intent invocation stands
  intent,      \* the intent each invocation was given
  frame,       \* the invocation's local variables bound so far
  applied,     \* per invocation, its calls of Executor.apply: the actions
               \* handed over and whether the executor raised
  outcome,     \* what the invocation's caller got: a result or an exception
  eps,         \* ConstrainedEpsilonGreedy.eps, in hundredths
  mu,          \* ConstrainedEpsilonGreedy.mu, in halves (2 * mu)
  n,           \* ConstrainedEpsilonGreedy.n
  ret,         \* what the scheduler call just made returned (or raised),
               \* until its caller has taken it
  observed,    \* how many observe(target, actual) calls were made, per argument pair
  opc,         \* where each concurrent observe invocation stands
  oframe       \* its local variables and the value its += has loaded

evars == <<policy, audit_log, pc, intent, frame, applied, outcome>>

svars == <<eps, mu, n, ret, observed>>

rvars == <<opc, oframe>>

vars == <<evars, svars, rvars>>

NoIntent == [kind |-> "none"]

NoOutcome == [kind |-> "none"]

Raised(err) == [kind |-> "raised", error |-> err]

EngineInit ==
  /\ policy \in Policies
  /\ audit_log = << >>
  /\ pc = [c \in Calls |-> "idle"]
  /\ intent = [c \in Calls |-> NoIntent]
  /\ frame = [c \in Calls |-> EmptyDict]
  /\ applied = [c \in Calls |-> << >>]
  /\ outcome = [c \in Calls |-> NoOutcome]

\* The exception leaves submit_intent: the frame is gone, the caller sees it.
Raise(c, err) ==
  /\ pc' = [pc EXCEPT ![c] = "done"]
  /\ frame' = [frame EXCEPT ![c] = EmptyDict]
  /\ outcome' = [outcome EXCEPT ![c] = Raised(err)]

\* A caller invokes engine.submit_intent(intent).
Submit(c) ==
  /\ pc[c] = "idle"
  /\ \E shape \in IntentShapes : intent' = [intent EXCEPT ![c] = MkIntent(c, shape)]
  /\ pc' = [pc EXCEPT ![c] = "before"]
  /\ UNCHANGED <<policy, audit_log, frame, applied, outcome>>
  /\ UNCHANGED <<svars, rvars>>

\* line 204: before = self.telemetry.snapshot(); the provider may raise.
SnapshotBefore(c) ==
  /\ pc[c] = "before"
  /\ \/ /\ \E l \in BeforeLossDicts :
             frame' = [frame EXCEPT ![c] = Bind(@, "before", MkSnapshot(l))]
        /\ pc' = [pc EXCEPT ![c] = "plan"]
        /\ UNCHANGED outcome
     \/ Raise(c, "TelemetryError")
  /\ UNCHANGED <<policy, audit_log, intent, applied>>
  /\ UNCHANGED <<svars, rvars>>

\* PlanStep with the planner's exception audited before it is raised again.
PlanStepAuditsFailure(c) ==
  /\ pc[c] = "plan"
  /\ IF PlanError(intent[c]) # ""
     THEN /\ Raise(c, PlanError(intent[c]))
          /\ audit_log' = Append(audit_log,
                                 [intent_id |-> intent[c].intent_id, plan_id |-> 0,
                                  ok |-> FALSE, message |-> [text |-> "plan_failed"]])
     ELSE /\ frame' = [frame EXCEPT
                         ![c] = Bind(@, "plan", PlannerPlan(c, intent[c], policy))]
          /\ pc' = [pc EXCEPT ![c] = "apply"]
          /\ UNCHANGED <<outcome, audit_log>>
  /\ UNCHANGED <<policy, intent, applied>>
  /\ UNCHANGED <<svars, rvars>>

\* line 206: plan = self.planner.plan(...); its exceptions are not caught.
PlanStep(c) ==
  /\ pc[c] = "plan"
  /\ IF PlanError(intent[c]) # ""
     THEN Raise(c, PlanError(intent[c]))
     ELSE /\ frame' = [frame EXCEPT
                         ![c] = Bind(@, "plan", PlannerPlan(c, intent[c], policy))]
          /\ pc' = [pc EXCEPT ![c] = "apply"]
          /\ UNCHANGED outcome
  /\ UNCHANGED <<policy, audit_log, intent, applied>>
  /\ UNCHANGED <<svars, rvars>>

\* line 209: self.executor.apply(plan.actions); the executor may raise, and
\* nothing in submit_intent catches it.
ApplyStep(c) ==
  /\ pc[c] = "apply"
  /\ \/ /\ applied' = [applied EXCEPT
                         ![c] = Append(@, [actions |-> frame[c].plan.actions,
                                           raised |-> FALSE])]
        /\ pc' = [pc EXCEPT ![c] = "after"]
        /\ UNCHANGED <<frame, outcome>>
     \/ /\ applied' = [applied EXCEPT
                         ![c] = Append(@, [actions |-> frame[c].plan.actions,
                                           raised |-> TRUE])]
        /\ Raise(c, "ApplyError")
  /\ UNCHANGED <<policy, audit_log, intent>>
  /\ UNCHANGED <<svars, rvars>>

\* line 211: after = self.telemetry.snapshot().
SnapshotAfter(c) ==
  /\ pc[c] = "after"
  /\ \/ /\ \E l \in LossDicts :
             frame' = [frame EXCEPT ![c] = Bind(@, "after", MkSnapshot(l))]
        /\ pc' = [pc EXCEPT ![c] = "verify"]
        /\ UNCHANGED outcome
     \/ Raise(c, "TelemetryError")
  /\ UNCHANGED <<policy, audit_log, intent, applied>>
  /\ UNCHANGED <<svars, rvars>>

\* Verification run on the snapshot taken before the plan was applied.
VerifyStepOnBefore(c) ==
  /\ pc[c] = "verify"
  /\ LET v == Verify(frame[c].before, policy)
     IN  frame' = [frame EXCEPT ![c] = Bind(Bind(@, "ok", v.ok), "msg", v.msg)]
  /\ pc' = [pc EXCEPT ![c] = "audit"]
  /\ UNCHANGED <<policy, audit_log, intent, applied, outcome>>
  /\ UNCHANGED <<svars, rvars>>

\* lines 214-223: ok and msg.
VerifyStep(c) ==
  /\ pc[c] = "verify"
  /\ LET v == Verify(frame[c].after, policy)
     IN  frame' = [frame EXCEPT ![c] = Bind(Bind(@, "ok", v.ok), "msg", v.msg)]
  /\ pc' = [pc EXCEPT ![c] = "audit"]
  /\ UNCHANGED <<policy, audit_log, intent, applied, outcome>>
  /\ UNCHANGED <<svars, rvars>>

\* An audit entry that records the call as applied whatever verification found.
AuditEntryApplied(c) ==
  [intent_id |-> intent[c].intent_id,
   plan_id |-> frame[c].plan.plan_id,
   ok |-> TRUE,
   message |-> [text |-> "applied"]]

\* The audit entry of lines 227-233 (without "ts").
AuditEntry(c) ==
  [intent_id |-> intent[c].intent_id,
   plan_id |-> frame[c].plan.plan_id,
   ok |-> frame[c].ok,
   message |-> frame[c].msg]

\* insert(0, entry) in place of append.
ListPrepend(log, entry) == <<entry>> \o log

\* self.audit_log = [entry] in place of append.
ListAssign(log, entry) == <<entry>>

\* list.append: one atomic operation on the shared list.
ListAppend(log, entry) == Append(log, entry)

\* line 226: self.audit_log.append({...}).
AuditStep(c) ==
  /\ pc[c] = "audit"
  /\ audit_log' = ListAppend(audit_log, AuditEntry(c))
  /\ pc' = [pc EXCEPT ![c] = "return"]
  /\ UNCHANGED <<policy, intent, frame, applied, outcome>>
  /\ UNCHANGED <<svars, rvars>>

\* The ExecutionResult of lines 236-243.
ExecutionResult(c) ==
  [kind |-> "result",
   plan_id |-> frame[c].plan.plan_id,
   ok |-> frame[c].ok,
   applied_actions |-> frame[c].plan.actions,
   before |-> frame[c].before,
   after |-> frame[c].after,
   message |-> frame[c].msg]

\* A return that first undoes the plan when verification failed: a second
\* call of the executor, with the compensating action.
ReturnStepRollingBack(c) ==
  /\ pc[c] = "return"
  /\ outcome' = [outcome EXCEPT ![c] = ExecutionResult(c)]
  /\ frame' = [frame EXCEPT ![c] = EmptyDict]
  /\ pc' = [pc EXCEPT ![c] = "done"]
  /\ applied' =
       IF frame[c].ok THEN applied
       ELSE [applied EXCEPT
               ![c] = Append(@, [actions |->
                                   << [action_type |-> "release_flow",
                                       params |-> frame[c].plan.actions[1].params] >>,
                                 raised |-> FALSE])]
  /\ UNCHANGED <<policy, audit_log, intent>>
  /\ UNCHANGED <<svars, rvars>>

\* line 236: return ExecutionResult(...).
ReturnStep(c) ==
  /\ pc[c] = "return"
  /\ outcome' = [outcome EXCEPT ![c] = ExecutionResult(c)]
  /\ frame' = [frame EXCEPT ![c] = EmptyDict]
  /\ pc' = [pc EXCEPT ![c] = "done"]
  /\ UNCHANGED <<policy, audit_log, intent, applied>>
  /\ UNCHANGED <<svars, rvars>>

EngineNext ==
  \E c \in Calls :
    \/ Submit(c)
    \/ SnapshotBefore(c)
    \/ PlanStep(c)
    \/ ApplyStep(c)
    \/ SnapshotAfter(c)
    \/ VerifyStep(c)
    \/ AuditStep(c)
    \/ ReturnStep(c)

\* ================================================================ scheduler
(***************************************************************************)
(* Units of the scheduler's floats, all exact in the model: latency in     *)
(* tenths of a ms (SLO, base) and 1/80 ms (estimate), cost in 1e-5 (SLO,   *)
(* base, actual) and 1e-6 (estimate), energy in J (SLO, base) and 1/40 J   *)
(* (estimate), rewards and mu in halves.  The SLOs of the model lie above  *)
(* the floors of score (1e-6, 1e-9), where max() returns the SLO's value.  *)
(***************************************************************************)

\* Number of observe calls made one after the other.
MaxObserve == 3

\* Number of observe invocations running concurrently.
MaxObservers == 2

\* cands, in the order of lines 83 and 116.
Cands == <<"photonic", "gpu", "cpu">>

Targets == {Cands[i] : i \in 1..Len(Cands)}

\* Models.mean.
Mean ==
  [photonic |-> [lat_ms |-> 4, cost |-> 20, energy |-> 1],
   gpu |-> [lat_ms |-> 12, cost |-> 50, energy |-> 5],
   cpu |-> [lat_ms |-> 40, cost |-> 10, energy |-> 2]]

\* The SLOs decide is called with: _demo's, a loose one that every candidate
\* meets, one no candidate meets, one whose cost budget makes the cpu score
\* best while its latency is unsafe, and one (10 ms, 0.00008, 1 J) under which
\* no candidate is safe and photonic and cpu have the same score at load 1.
SLOs ==
  { [latency_p95_ms |-> 20, cost_per_1k |-> 50, energy_j_max |-> 6],
    [latency_p95_ms |-> 100, cost_per_1k |-> 10, energy_j_max |-> 10],
    [latency_p95_ms |-> 1, cost_per_1k |-> 50, energy_j_max |-> 1],
    [latency_p95_ms |-> 40, cost_per_1k |-> 1, energy_j_max |-> 10],
    [latency_p95_ms |-> 100, cost_per_1k |-> 8, energy_j_max |-> 1] }

\* The workload contexts: all defaults (load 1), load 2, load 4.
Contexts ==
  { EmptyDict,
    [tokens |-> 512, batch_size |-> 4],
    [tokens |-> 256, concurrency |-> 32] }

\* dict.get(key, default).
GetOr(d, k, default) == IF k \in DOMAIN d THEN d[k] ELSE default

\* batch ** 0.5 and concurrency ** 0.6, for the arguments where they are whole.
Sqrt(b) == CHOOSE r \in 0..b : r * r = b

Pow06(c) == CHOOSE r \in 0..c : r * r * r * r * r = c * c * c

\* Twice the load of line 68.
Load2(context) ==
  LET batch == GetOr(context, "batch_size", 1)
      tokens == GetOr(context, "tokens", 512)
      concurrency == GetOr(context, "concurrency", 1)
  IN  (tokens * Sqrt(batch) * Pow06(concurrency)) \div 256

\* Models.estimate: base * (1 + 0.25 load), (1 + 0.35 load), (1 + 0.20 load).
Estimate(target, context) ==
  LET base == Mean[target]
      k == Load2(context)
  IN  [lat_ms |-> base.lat_ms * (8 + k),
       energy |-> base.energy * (40 + 7 * k),
       cost |-> base.cost * (10 + k)]

\* _safe, and the same test in ConstrainedBestScore.decide (line 88):
\* lat_ms <= latency_p95_ms * 1.05 and energy <= energy_j_max * 1.1.
Safe(est, slo) ==
  /\ est.lat_ms * 1000 <= 105 * slo.latency_p95_ms * 80
  /\ est.energy * 100 <= 110 * slo.energy_j_max * 40

\* score, as the fraction num / den: 1 / (0.55 lat_pen + 0.30 cost_pen +
\* 0.15 energy_pen), both sides multiplied by 800 L C E.
Score(est, slo) ==
  LET L == slo.latency_p95_ms
      C == slo.cost_per_1k
      E == slo.energy_j_max
  IN  [num |-> 800 * L * C * E,
       den |-> 55 * est.lat_ms * C * E + 24 * est.cost * L * E
                 + 3 * est.energy * L * C]

\* a/b < c/d for a, c >= 0 and b, d > 0, without forming a product.
RECURSIVE FracLess(_, _, _, _)
FracLess(a, b, c, d) ==
  LET qa == a \div b
      qc == c \div d
      ra == a % b
      rc == c % d
  IN  IF qa # qc THEN qa < qc
      ELSE IF rc = 0 THEN FALSE
      ELSE IF ra = 0 THEN TRUE
      ELSE FracLess(d, rc, b, ra)

\* score + mu / n as a whole part and a fraction in [0, 2): whole + fnum/fden.
Value(sc, m, cnt) ==
  LET q == m \div (2 * cnt)
      r == m % (2 * cnt)
  IN  [whole |-> (sc.num \div sc.den) + q,
       fnum |-> (sc.num % sc.den) * 2 * cnt + r * sc.den,
       fden |-> sc.den * 2 * cnt]

\* v < w for two such values.
ValueLess(v, w) ==
  LET vw == v.whole + (v.fnum \div v.fden)
      ww == w.whole + (w.fnum \div w.fden)
  IN  IF vw # ww THEN vw < ww
      ELSE FracLess(v.fnum % v.fden, v.fden, w.fnum % w.fden, w.fden)

\* max written to keep the last of several equal maxima.
LastMax(vals) ==
  CHOOSE i \in 1..Len(vals) :
    /\ \A j \in 1..Len(vals) : ~ValueLess(vals[i], vals[j])
    /\ \A j \in (i + 1)..Len(vals) : ValueLess(vals[j], vals[i])

\* max(..., key=...) over a non-empty list: the first item no later item beats
\* and no earlier item equals, i.e. the first maximum.  vals[i] is item i's key.
FirstMax(vals) ==
  CHOOSE i \in 1..Len(vals) :
    /\ \A j \in 1..Len(vals) : ~ValueLess(vals[i], vals[j])
    /\ \A j \in 1..(i - 1) : ValueLess(vals[j], vals[i])

\* [t for t in cands if safe(t)], in candidate order.
SafeList(slo, context) ==
  SelectSeq(Cands, LAMBDA t : Safe(Estimate(t, context), slo))

\* The safety filter dropped: every candidate is considered.
ConsideredAll(slo, context) == Cands

\* The list both decide methods choose from: the safe list, or cands when it
\* is empty (lines 91-92 and "or cands" of line 118).
Considered(slo, context) ==
  IF SafeList(slo, context) = << >> THEN Cands ELSE SafeList(slo, context)

\* ConstrainedBestScore.decide.
BestScoreDecide(slo, context) ==
  LET safe == Considered(slo, context)
      vals == [i \in 1..Len(safe) |->
                 Value(Score(Estimate(safe[i], context), slo), 0, 1)]
      best_t == safe[FirstMax(vals)]
  IN  [sched |-> "best_score", slo |-> slo, context |-> context,
       target |-> best_t,
       expected |-> Estimate(best_t, context),
       score |-> Score(Estimate(best_t, context), slo)]

\* canary, the constructor's default (0.05), in hundredths.
Canary == 5

\* decide with the test of line 119 written random.random() <= self.eps.
EpsGreedyDecideLe(slo, context, u, pick, e, m, cnt) ==
  LET safe == Considered(slo, context)
      explore == u <= e
      vals == [i \in 1..Len(safe) |->
                 Value(Score(Estimate(safe[i], context), slo),
                       m[safe[i]], cnt[safe[i]])]
      choice == IF explore THEN safe[pick] ELSE safe[FirstMax(vals)]
  IN  [sched |-> "epsilon_greedy", slo |-> slo, context |-> context,
       target |-> choice,
       expected |-> Estimate(choice, context),
       mode |-> IF explore THEN "explore" ELSE "exploit",
       canary_fraction |-> Canary]

\* decide exploiting on the score alone, without the mu / n term of line 123.
EpsGreedyDecideScoreOnly(slo, context, u, pick, e, m, cnt) ==
  LET safe == Considered(slo, context)
      explore == u < e
      vals == [i \in 1..Len(safe) |->
                 Value(Score(Estimate(safe[i], context), slo), 0, 1)]
      choice == IF explore THEN safe[pick] ELSE safe[FirstMax(vals)]
  IN  [sched |-> "epsilon_greedy", slo |-> slo, context |-> context,
       target |-> choice,
       expected |-> Estimate(choice, context),
       mode |-> IF explore THEN "explore" ELSE "exploit",
       canary_fraction |-> Canary]

\* decide whose max keeps the last of several equal values.
EpsGreedyDecideLastMax(slo, context, u, pick, e, m, cnt) ==
  LET safe == Considered(slo, context)
      explore == u < e
      vals == [i \in 1..Len(safe) |->
                 Value(Score(Estimate(safe[i], context), slo),
                       m[safe[i]], cnt[safe[i]])]
      choice == IF explore THEN safe[pick] ELSE safe[LastMax(vals)]
  IN  [sched |-> "epsilon_greedy", slo |-> slo, context |-> context,
       target |-> choice,
       expected |-> Estimate(choice, context),
       mode |-> IF explore THEN "explore" ELSE "exploit",
       canary_fraction |-> Canary]

\* ConstrainedEpsilonGreedy.decide; u is random.random() in hundredths and
\* pick the index random.choice draws.
EpsGreedyDecide(slo, context, u, pick, e, m, cnt) ==
  LET safe == Considered(slo, context)
      explore == u < e
      vals == [i \in 1..Len(safe) |->
                 Value(Score(Estimate(safe[i], context), slo),
                       m[safe[i]], cnt[safe[i]])]
      choice == IF explore THEN safe[pick] ELSE safe[FirstMax(vals)]
  IN  [sched |-> "epsilon_greedy", slo |-> slo, context |-> context,
       target |-> choice,
       expected |-> Estimate(choice, context),
       mode |-> IF explore THEN "explore" ELSE "exploit",
       canary_fraction |-> Canary]

\* The outcomes observe is called with: a costly slow one (reward -1), a cost
\* below the 1e-4 floor with a negative latency (reward 10000), and one with
\* no "lat_ms" key (reward 2).
Actuals ==
  { [cost |-> 100000, lat_ms |-> 4],
    [cost |-> 5, lat_ms |-> -3],
    [cost |-> 50000] }

\* The target ids observe is called with: the tracked ones and a typo.
ObserveTargets == Targets \cup {"gpuu"}

Max(a, b) == IF a >= b THEN a ELSE b

\* Twice the reward of line 141: 1 / max(cost, 1e-4) - 0.5 * max(0, lat_ms).
Reward(actual) ==
  (200000 \div Max(GetOr(actual, "cost", 10), 10))
    - Max(0, GetOr(actual, "lat_ms", 0))

\* observe written with self.mu.get(target, 0.0) + r and self.n.get(target, 1) + 1:
\* an untracked target gets an entry and nothing is raised.
ObserveCallDefault(m, cnt, target, r) ==
  [mu |-> Bind(m, target, GetOr(m, target, 0) + r),
   n |-> Bind(cnt, target, GetOr(cnt, target, 1) + 1),
   error |-> ""]

\* lines 142-143 as one call runs them alone: self.mu[target] += r loads
\* self.mu[target] first, which raises KeyError for an untracked target
\* before anything is stored.
ObserveCall(m, cnt, target, r) ==
  IF target \notin DOMAIN m
  THEN [mu |-> m, n |-> cnt, error |-> "KeyError"]
  ELSE [mu |-> Bind(m, target, m[target] + r),
        n |-> Bind(cnt, target, cnt[target] + 1),
        error |-> ""]

NoReturn == [call |-> "none"]

\* ConstrainedEpsilonGreedy.__init__ (and a ConstrainedBestScore beside it).
SchedInit ==
  /\ eps \in {0, 20, 100}
  /\ mu = [t \in Targets |-> 0]
  /\ n = [t \in Targets |-> 1]
  /\ ret = NoReturn
  /\ observed = [x \in ObserveTargets \X Actuals |-> 0]

\* Before any call: the scheduler as constructed with the default eps.
SchedParked ==
  /\ eps = 10
  /\ mu = [t \in Targets |-> 0]
  /\ n = [t \in Targets |-> 1]
  /\ ret = NoReturn
  /\ observed = [x \in ObserveTargets \X Actuals |-> 0]

RECURSIVE SumOver(_, _)
SumOver(f, S) ==
  IF S = {} THEN 0
  ELSE LET x == CHOOSE y \in S : TRUE IN f[x] + SumOver(f, S \ {x})

ObserveCount == SumOver(observed, DOMAIN observed)

\* best.decide(slo, ctx).
DecideBest ==
  /\ ret = NoReturn
  /\ \E slo \in SLOs, context \in Contexts :
       ret' = [call |-> "decide", value |-> BestScoreDecide(slo, context)]
  /\ UNCHANGED <<eps, mu, n, observed>>
  /\ UNCHANGED <<evars, rvars>>

\* decide counting its own choice as a sample: self.n[choice] += 1.
DecideEpsCounting ==
  /\ ret = NoReturn
  /\ \E slo \in SLOs, context \in Contexts, u \in {0, 50, 99} :
       \E pick \in 1..(IF u < eps THEN Len(Considered(slo, context)) ELSE 1) :
         LET d == EpsGreedyDecide(slo, context, u, pick, eps, mu, n)
         IN  /\ ret' = [call |-> "decide", value |-> d]
             /\ n' = [n EXCEPT ![d.target] = @ + 1]
  /\ UNCHANGED <<eps, mu, observed>>
  /\ UNCHANGED <<evars, rvars>>

\* eg.decide(slo, ctx), for every value the two random draws can take
\* (random.choice is drawn only when random.random() < eps).
DecideEps ==
  /\ ret = NoReturn
  /\ \E slo \in SLOs, context \in Contexts, u \in {0, 50, 99} :
       \E pick \in 1..(IF u < eps THEN Len(Considered(slo, context)) ELSE 1) :
         ret' = [call |-> "decide",
                 value |-> EpsGreedyDecide(slo, context, u, pick, eps, mu, n)]
  /\ UNCHANGED <<eps, mu, n, observed>>
  /\ UNCHANGED <<evars, rvars>>

\* eg.observe(target, actual), run to its end.
Observe ==
  /\ ret = NoReturn
  /\ ObserveCount < MaxObserve
  /\ \E target \in ObserveTargets, actual \in Actuals :
       LET res == ObserveCall(mu, n, target, Reward(actual))
       IN  /\ mu' = res.mu
           /\ n' = res.n
           /\ ret' = [call |-> "observe", target |-> target, actual |-> actual,
                      error |-> res.error]
           /\ observed' = [observed EXCEPT ![<<target, actual>>] = @ + 1]
  /\ UNCHANGED eps
  /\ UNCHANGED <<evars, rvars>>

\* The caller takes the return value (or the exception) and goes on.
Take ==
  /\ ret # NoReturn
  /\ ret' = NoReturn
  /\ UNCHANGED <<eps, mu, n, observed>>
  /\ UNCHANGED <<evars, rvars>>

SchedNext ==
  \/ DecideBest
  \/ DecideEps
  \/ Observe
  \/ Take

\* ------------------------------------------- observe, invocations in parallel
(***************************************************************************)
(* observe takes no lock.  self.mu[target] += r is a load of the item, an  *)
(* add and a store, and self.n[target] += 1 likewise; another thread may   *)
(* run between the load and the store.                                     *)
(***************************************************************************)

Observers == 1..MaxObservers

RaceInit ==
  /\ opc = [t \in Observers |-> "idle"]
  /\ oframe = [t \in Observers |-> EmptyDict]

\* A thread calls eg.observe(target, actual); line 141 binds r.
ObsBegin(t) ==
  /\ opc[t] = "idle"
  /\ \E target \in ObserveTargets, actual \in Actuals :
       oframe' = [oframe EXCEPT
                    ![t] = [target |-> target, r |-> Reward(actual), error |-> ""]]
  /\ opc' = [opc EXCEPT ![t] = "load_mu"]
  /\ UNCHANGED <<mu, n>>
  /\ UNCHANGED <<evars, eps, ret, observed>>

\* line 142, the load of self.mu[target]: KeyError for an untracked target.
ObsLoadMu(t) ==
  /\ opc[t] = "load_mu"
  /\ IF oframe[t].target \in DOMAIN mu
     THEN /\ oframe' = [oframe EXCEPT ![t] = Bind(@, "loaded", mu[oframe[t].target])]
          /\ opc' = [opc EXCEPT ![t] = "store_mu"]
     ELSE /\ oframe' = [oframe EXCEPT ![t] = Bind(@, "error", "KeyError")]
          /\ opc' = [opc EXCEPT ![t] = "done"]
  /\ UNCHANGED <<mu, n>>
  /\ UNCHANGED <<evars, eps, ret, observed>>

\* line 142, the store of the sum.
ObsStoreMu(t) ==
  /\ opc[t] = "store_mu"
  /\ mu' = Bind(mu, oframe[t].target, oframe[t].loaded + oframe[t].r)
  /\ opc' = [opc EXCEPT ![t] = "load_n"]
  /\ UNCHANGED <<n, oframe>>
  /\ UNCHANGED <<evars, eps, ret, observed>>

\* line 143, the load of self.n[target].
ObsLoadN(t) ==
  /\ opc[t] = "load_n"
  /\ oframe' = [oframe EXCEPT ![t] = Bind(@, "loaded", n[oframe[t].target])]
  /\ opc' = [opc EXCEPT ![t] = "store_n"]
  /\ UNCHANGED <<mu, n>>
  /\ UNCHANGED <<evars, eps, ret, observed>>

\* line 143, the store; observe returns.
ObsStoreN(t) ==
  /\ opc[t] = "store_n"
  /\ n' = Bind(n, oframe[t].target, oframe[t].loaded + 1)
  /\ opc' = [opc EXCEPT ![t] = "done"]
  /\ UNCHANGED <<mu, oframe>>
  /\ UNCHANGED <<evars, eps, ret, observed>>

RaceNext ==
  \E t \in Observers :
    \/ ObsBegin(t)
    \/ ObsLoadMu(t)
    \/ ObsStoreMu(t)
    \/ ObsLoadN(t)
    \/ ObsStoreN(t)

\* ------------------------------------------ observe, floating-point addition
(***************************************************************************)
(* mu[target] and r are Python floats and += is a floating-point addition: *)
(* the exact sum rounded to the nearest float, ties to the one with an     *)
(* even mantissa.  The outcomes and sums of the sections above are whole   *)
(* numbers (of halves) far below 2^53, where that addition is exact.  This *)
(* section runs observe with a mantissa of MantissaBits bits in place of   *)
(* the 53 of a double, on outcomes whose sums do not all fit it.  Values   *)
(* are whole numbers of the unit of the smallest operand bit (a half).     *)
(***************************************************************************)

\* Bits of the mantissa (53 for a Python float).
MantissaBits == 4

RECURSIVE Pow2(_)
Pow2(k) == IF k = 0 THEN 1 ELSE 2 * Pow2(k - 1)

\* The number of bits of a >= 0: the least k with a < 2^k.
RECURSIVE BitLen(_)
BitLen(a) == IF a = 0 THEN 0 ELSE 1 + BitLen(a \div 2)

Abs(x) == IF x < 0 THEN -x ELSE x

\* x rounded toward zero to MantissaBits significant bits.
Chop(x) ==
  LET a == Abs(x)
      e == BitLen(a) - MantissaBits
  IN  IF e <= 0 THEN x
      ELSE (IF x < 0 THEN -1 ELSE 1) * (a \div Pow2(e)) * Pow2(e)

\* x rounded to the nearest value with MantissaBits significant bits, a tie
\* to the one whose mantissa is even.
RoundNearestEven(x) ==
  LET a == Abs(x)
      e == BitLen(a) - MantissaBits
  IN  IF e <= 0 THEN x
      ELSE LET q == a \div Pow2(e)
               rem == a % Pow2(e)
               half == Pow2(e - 1)
               up == rem > half \/ (rem = half /\ q % 2 = 1)
           IN  (IF x < 0 THEN -1 ELSE 1) * (IF up THEN q + 1 ELSE q) * Pow2(e)

\* a + b of two floats.
FloatAdd(a, b) == RoundNearestEven(a + b)

\* The outcomes observe is called with here: rewards -0.5, -8, -9 and 2.
FloatActuals ==
  { [cost |-> 100000, lat_ms |-> 3],
    [cost |-> 100000, lat_ms |-> 18],
    [cost |-> 100000, lat_ms |-> 20],
    [cost |-> 50000] }

\* observe whose addition rounds toward zero.
ObserveCallChopping(m, cnt, target, r) ==
  IF target \notin DOMAIN m
  THEN [mu |-> m, n |-> cnt, error |-> "KeyError"]
  ELSE [mu |-> Bind(m, target, Chop(m[target] + r)),
        n |-> Bind(cnt, target, cnt[target] + 1),
        error |-> ""]

\* lines 142-143 with the float addition of line 142; n is a Python int.
ObserveCallFloat(m, cnt, target, r) ==
  IF target \notin DOMAIN m
  THEN [mu |-> m, n |-> cnt, error |-> "KeyError"]
  ELSE [mu |-> Bind(m, target, FloatAdd(m[target], r)),
        n |-> Bind(cnt, target, cnt[target] + 1),
        error |-> ""]

\* ConstrainedEpsilonGreedy.__init__, before any call.
FloatInit ==
  /\ eps = 10
  /\ mu = [t \in Targets |-> 0]
  /\ n = [t \in Targets |-> 1]
  /\ ret = NoReturn
  /\ observed = [x \in Targets \X FloatActuals |-> 0]

\* eg.observe(target, actual), run to its end; it returns None.
FloatObserve ==
  /\ ObserveCount < MaxObserve
  /\ \E target \in Targets, actual \in FloatActuals :
       LET res == ObserveCallFloat(mu, n, target, Reward(actual))
       IN  /\ mu' = res.mu
           /\ n' = res.n
           /\ observed' = [observed EXCEPT ![<<target, actual>>] = @ + 1]
  /\ UNCHANGED <<eps, ret>>
  /\ UNCHANGED <<evars, rvars>>

FloatNext == FloatObserve

\* ------------------------------------------------------- engine properties

\* The audit entries of invocation c's intent.
EntriesOf(c) == {i \in 1..Len(audit_log) : audit_log[i].intent_id = c}

\* The invocation has appended its audit entry.
Audited(c) ==
  \/ pc[c] = "return"
  \/ pc[c] = "done" /\ outcome[c].kind = "result"

ApplyRaised(c) == \E i \in 1..Len(applied[c]) : applied[c][i].raised

\* C1: every finished submit_intent call for a bandwidth intent with a valid
\* payload has returned an ExecutionResult and left exactly one audit entry,
\* whatever the executor and the telemetry provider did.
C1_OneResultOneAudit ==
  \A c \in Calls :
    (pc[c] = "done" /\ PlanError(intent[c]) = "")
      => /\ outcome[c].kind = "result"
         /\ Cardinality(EntriesOf(c)) = 1

\* C2: a call whose intent the Planner rejects (unsupported kind, missing
\* required field) never reaches Executor.apply, never holds a Plan, never
\* gets an audit entry, and ends with an exception for its caller.
C2_PlannerFailureLeavesNothing ==
  \A c \in Calls :
    (pc[c] # "idle" /\ PlanError(intent[c]) # "")
      => /\ applied[c] = << >>
         /\ EntriesOf(c) = {}
         /\ "plan" \notin DOMAIN frame[c]
         /\ pc[c] \in {"before", "plan", "done"}
         /\ pc[c] = "done" => outcome[c].kind = "raised"

\* Both planner failures happened: one call ended with ValueError, the other
\* with KeyError, while the log is still empty.
C2_Witness ==
  /\ \E c \in Calls : pc[c] = "done" /\ outcome[c] = Raised("ValueError")
  /\ \E c \in Calls : pc[c] = "done" /\ outcome[c] = Raised("KeyError")

\* C3: when Executor.apply raised, the finished call has returned a result
\* with ok = false and message "apply_failed", and an audit entry with
\* ok = false is in the log for it.
C3_ApplyFailureIsRecorded ==
  \A c \in Calls :
    (pc[c] = "done" /\ ApplyRaised(c))
      => /\ outcome[c].kind = "result"
         /\ outcome[c].ok = FALSE
         /\ outcome[c].message.text = "apply_failed"
         /\ \E i \in EntriesOf(c) : audit_log[i].ok = FALSE

\* Some loss of the dict is strictly above the limit.
SomeLossAbove(losses, limit) == \E i \in 1..Len(losses) : losses[i][2] > limit

\* C4: a returned result has ok = false exactly when verification is required
\* and some loss of the after-snapshot is strictly above max_packet_loss; then
\* the message names such a loss and the threshold, otherwise it is "applied".
C4_VerificationOutcome ==
  \A c \in Calls :
    outcome[c].kind = "result"
      => LET res == outcome[c]
             fails == /\ policy.require_verification
                      /\ SomeLossAbove(res.after.link_loss, policy.max_packet_loss)
         IN  /\ res.ok = ~fails
             /\ res.ok => res.message = [text |-> "applied"]
             /\ ~res.ok =>
                  /\ res.message.text = "verification_failed"
                  /\ res.message.limit = policy.max_packet_loss
                  /\ res.message.loss > policy.max_packet_loss
                  /\ \E i \in 1..Len(res.after.link_loss) :
                       res.after.link_loss[i][2] = res.message.loss

\* With verification on, one call passed although its before-snapshot had a
\* loss above the threshold and its after-snapshot has a loss equal to it and
\* no entry for link A-C, and another call failed verification.
C4_Witness ==
  /\ policy.require_verification
  /\ \E c \in Calls :
       /\ outcome[c].kind = "result" /\ outcome[c].ok
       /\ SomeLossAbove(outcome[c].before.link_loss, policy.max_packet_loss)
       /\ \E i \in 1..Len(outcome[c].after.link_loss) :
            outcome[c].after.link_loss[i][2] = policy.max_packet_loss
       /\ \A i \in 1..Len(outcome[c].after.link_loss) :
            outcome[c].after.link_loss[i][1] # "AC"
  /\ \E c \in Calls : outcome[c].kind = "result" /\ ~outcome[c].ok

\* C5: every step leaves the audit log as it is or extends it by exactly one
\* entry at its end, the entry of the call that takes its audit step: the old
\* log is a prefix of the new one, so the k-th entry is that of the k-th call
\* to reach the audit step.
C5_AppendOnlyInOrder ==
  [][ /\ Len(audit_log') >= Len(audit_log)
      /\ \A i \in 1..Len(audit_log) : audit_log'[i] = audit_log[i]
      /\ Len(audit_log') > Len(audit_log) =>
           /\ Len(audit_log') = Len(audit_log) + 1
           /\ \E c \in Calls :
                /\ pc[c] = "audit" /\ pc'[c] # "audit"
                /\ audit_log'[Len(audit_log')] = AuditEntry(c) ]_vars

\* Two calls are audited, the second invocation's entry before the first's.
C5_Witness ==
  /\ Len(audit_log) = 2
  /\ audit_log[1].intent_id = 2
  /\ audit_log[2].intent_id = 1

\* C6: under every interleaving of concurrent calls, each call that has taken
\* its audit step has exactly one entry in the log, with its plan id, a call
\* that has not has none, and the log is as long as the number of such calls.
C6_NoLostAuditEntry ==
  /\ Len(audit_log) = Cardinality({c \in Calls : Audited(c)})
  /\ \A c \in Calls :
       IF Audited(c)
       THEN /\ Cardinality(EntriesOf(c)) = 1
            /\ \A i \in EntriesOf(c) : audit_log[i].plan_id = PlanId(c)
       ELSE EntriesOf(c) = {}

\* Two calls are between their audit step and their return at the same time.
C6_Witness ==
  /\ \A c \in {1, 2} : pc[c] = "return"
  /\ Len(audit_log) >= 2

\* The invocation holds a Plan (between line 206 and its return).
HasPlan(c) == "plan" \in DOMAIN frame[c]

\* C13: a call with a valid bandwidth intent that is past planning holds a
\* Plan whose intent_id is the intent's id and whose actions are exactly one
\* allocate_flow action with the intent's source, destination, bandwidth_gbps
\* and max_latency_ms (None when the payload has no such key) and the Policy's
\* max_link_utilization and max_packet_loss; the ExecutionResult the call
\* returns reports these same actions as applied_actions.
C13_PlanEchoesIntent ==
  \A c \in Calls :
    LET p == intent[c].payload
        echoed(actions) ==
          /\ Len(actions) = 1
          /\ actions[1].action_type = "allocate_flow"
          /\ DOMAIN actions[1].params =
               {"source", "destination", "bandwidth_gbps", "max_latency_ms",
                "policy_max_util", "policy_max_loss"}
          /\ actions[1].params.source = p.source
          /\ actions[1].params.destination = p.destination
          /\ actions[1].params.bandwidth_gbps = p.bandwidth_gbps
          /\ actions[1].params.max_latency_ms =
               (IF "max_latency_ms" \in DOMAIN p THEN p.max_latency_ms ELSE None)
          /\ actions[1].params.policy_max_util = policy.max_link_utilization
          /\ actions[1].params.policy_max_loss = policy.max_packet_loss
    IN  /\ pc[c] \in {"apply", "after", "verify", "audit", "return"} => HasPlan(c)
        /\ HasPlan(c) =>
             /\ PlanError(intent[c]) = ""
             /\ frame[c].plan.intent_id = intent[c].intent_id
             /\ echoed(frame[c].plan.actions)
        /\ pc[c] = "return" => ExecutionResult(c).applied_actions = frame[c].plan.actions
        /\ outcome[c].kind = "result" => echoed(outcome[c].applied_actions)

\* One call returned the plan of an intent without a max_latency_ms key while
\* another holds the plan of an intent with max_latency_ms = 25.
C13_Witness ==
  /\ \E c \in Calls :
       /\ outcome[c].kind = "result"
       /\ "max_latency_ms" \notin DOMAIN intent[c].payload
       /\ outcome[c].applied_actions[1].params.max_latency_ms = None
  /\ \E c \in Calls :
       /\ HasPlan(c)
       /\ frame[c].plan.actions[1].params.max_latency_ms = <<25>>

\* C14: the Plan made for an intent whose payload has a priority carries that
\* priority, in the params of one of its actions or in its expected_impact.
C14_PriorityCarried ==
  \A c \in Calls :
    (HasPlan(c) /\ "priority" \in DOMAIN intent[c].payload) =>
      LET plan == frame[c].plan
          prio == intent[c].payload.priority
      IN  \/ \E i \in 1..Len(plan.actions) :
               /\ "priority" \in DOMAIN plan.actions[i].params
               /\ plan.actions[i].params.priority = prio
          \/ /\ "priority" \in DOMAIN plan.expected_impact
             /\ plan.expected_impact.priority = prio

\* The step binds local variable k of invocation c.
Binds(c, k) == k \notin DOMAIN frame[c] /\ k \in DOMAIN frame'[c]

\* C15: within one call the steps come in the order before-snapshot, plan,
\* apply, after-snapshot, verify, audit.  The plan is made only once the
\* before-snapshot is held; Executor.apply is invoked only while the
\* before-snapshot and the plan are held and no after-snapshot is; the
\* after-snapshot is taken only after the call's one apply has returned; ok
\* and message are those verification computes from the after-snapshot; and
\* the audit entry is appended only once ok and message are fixed, with them.
C15_StepOrder ==
  [][ \A c \in Calls :
        /\ Binds(c, "plan") => "before" \in DOMAIN frame[c]
        /\ Len(applied'[c]) > Len(applied[c]) =>
             /\ {"before", "plan"} \subseteq DOMAIN frame[c]
             /\ DOMAIN frame[c] \cap {"after", "ok", "msg"} = {}
             /\ EntriesOf(c) = {}
        /\ Binds(c, "after") =>
             /\ Len(applied[c]) = 1 /\ ~applied[c][1].raised
             /\ DOMAIN frame[c] \cap {"ok", "msg"} = {}
        /\ (Binds(c, "ok") \/ Binds(c, "msg")) =>
             /\ "after" \in DOMAIN frame[c]
             /\ frame'[c].ok = Verify(frame[c].after, policy).ok
             /\ frame'[c].msg = Verify(frame[c].after, policy).msg
        /\ (\E i \in 1..Len(audit_log') :
              i > Len(audit_log) /\ audit_log'[i].intent_id = c) =>
             /\ {"before", "plan", "after", "ok", "msg"} \subseteq DOMAIN frame[c]
             /\ audit_log'[Len(audit_log')].ok = frame[c].ok
             /\ audit_log'[Len(audit_log')].message = frame[c].msg ]_vars

\* A call has gone through all six steps and failed verification although the
\* snapshot taken before its plan passes it.
C15_Witness ==
  \E c \in Calls :
    /\ pc[c] = "return"
    /\ ~frame[c].ok
    /\ Verify(frame[c].before, policy).ok
    /\ EntriesOf(c) # {}

\* C18: every audit entry carries the intent id of a submitted intent whose
\* call has returned an ExecutionResult, or stands at its return statement
\* with that result in hand, and the entry's plan_id, ok and message are the
\* result's; a call that raised has no entry.
C18_AuditAgreesWithResult ==
  /\ \A i \in 1..Len(audit_log) :
       LET entry == audit_log[i]
       IN  \E c \in Calls :
             /\ pc[c] \in {"return", "done"}
             /\ entry.intent_id = intent[c].intent_id
             /\ LET res == IF pc[c] = "done" THEN outcome[c] ELSE ExecutionResult(c)
                IN  /\ res.kind = "result"
                    /\ entry.plan_id = res.plan_id
                    /\ entry.ok = res.ok
                    /\ entry.message = res.message
  /\ \A c \in Calls : outcome[c].kind = "raised" => EntriesOf(c) = {}

\* One call has returned a failed result and another a passed one, with verification
\* on, and both entries are in the log.
C18_Witness ==
  /\ Len(audit_log) = 2
  /\ \E c \in Calls : outcome[c].kind = "result" /\ ~outcome[c].ok
  /\ \E c \in Calls : outcome[c].kind = "result" /\ outcome[c].ok

\* C20: a call makes no Executor.apply call before its apply statement and
\* exactly one from then on, handing over the plan's action list as it is; a
\* returned result, with ok = true or ok = false, reports that list as
\* applied_actions and the executor was called for it that once only.
C20_AppliedOnceNoRollback ==
  \A c \in Calls :
    /\ Len(applied[c]) <= 1
    /\ pc[c] \in {"idle", "before", "plan", "apply"} => applied[c] = << >>
    /\ pc[c] \in {"after", "verify", "audit", "return"} =>
         /\ Len(applied[c]) = 1
         /\ ~applied[c][1].raised
         /\ applied[c][1].actions = frame[c].plan.actions
    /\ (pc[c] = "done" /\ PlanError(intent[c]) = "" /\ outcome[c] # Raised("TelemetryError"))
         => Len(applied[c]) = 1
    /\ outcome[c].kind = "result" =>
         /\ Len(applied[c]) = 1
         /\ ~applied[c][1].raised
         /\ outcome[c].applied_actions = applied[c][1].actions
         /\ outcome[c].ok = Verify(outcome[c].after, policy).ok

\* A call returned ok = false, its applied_actions being the one list the
\* executor was given.
C20_Witness ==
  \E c \in Calls :
    /\ outcome[c].kind = "result"
    /\ ~outcome[c].ok
    /\ Len(applied[c]) = 1
    /\ outcome[c].applied_actions = applied[c][1].actions

\* ---------------------------------------------------- scheduler properties

\* The observe invocations that ran to their end on target tg.
DoneOn(tg) ==
  {t \in Observers : opc[t] = "done" /\ oframe[t].target = tg /\ oframe[t].error = ""}

RECURSIVE RewardSum(_)
RewardSum(T) ==
  IF T = {} THEN 0
  ELSE LET t == CHOOSE x \in T : TRUE IN oframe[t].r + RewardSum(T \ {t})

\* C7: once the concurrent observe calls have all returned, n[target] has
\* grown by the number of calls on the target and mu[target] by the sum of
\* their rewards, for every interleaving.
C7_NoLostUpdate ==
  (\A t \in Observers : opc[t] \in {"idle", "done"})
    => \A tg \in Targets :
         /\ n[tg] = 1 + Cardinality(DoneOn(tg))
         /\ mu[tg] = RewardSum(DoneOn(tg))

\* The candidates that pass the safety filter for a decide call's arguments.
SafeSet(slo, context) == {t \in Targets : Safe(Estimate(t, context), slo)}

\* C8: a decide call of either scheduler, in either mode and after any
\* observe calls, returns one of photonic, gpu, cpu; when some candidate is
\* safe the returned one is safe; and the divisions decide performs (by the
\* penalty sum in score, by n[target]) have non-zero divisors.
C8_DecideReturnsSafeTarget ==
  /\ \A t \in Targets : n[t] >= 1
  /\ ret.call = "decide" =>
       LET d == ret.value
       IN  /\ d.target \in Targets
           /\ SafeSet(d.slo, d.context) # {} => d.target \in SafeSet(d.slo, d.context)
           /\ d.expected = Estimate(d.target, d.context)
           /\ \A t \in Targets : Score(Estimate(t, d.context), d.slo).den > 0

\* After some observe calls the adaptive scheduler explored, with one or two
\* of the three candidates safe.
C8_Witness ==
  /\ ret.call = "decide"
  /\ ret.value.sched = "epsilon_greedy"
  /\ ret.value.mode = "explore"
  /\ ObserveCount > 0
  /\ SafeSet(ret.value.slo, ret.value.context) \notin {{}, Targets}

\* The argument pairs whose observe call this step made.
JustObserved == {x \in DOMAIN observed : observed'[x] = observed[x] + 1}

\* C9: a decide step leaves mu and n as they are, mu or n change only in an
\* observe step, and observe(t, actual) for a tracked t adds reward(actual)
\* to mu[t] and 1 to n[t] and leaves every other target's mu and n alone.
C9_ObserveIsTheOnlyMutator ==
  [][ /\ ret'.call = "decide" => mu' = mu /\ n' = n
      /\ (mu' # mu \/ n' # n) => JustObserved # {}
      /\ \A x \in JustObserved :
           x[1] \in Targets =>
             /\ mu'[x[1]] = mu[x[1]] + Reward(x[2])
             /\ n'[x[1]] = n[x[1]] + 1
             /\ \A o \in Targets \ {x[1]} : mu'[o] = mu[o] /\ n'[o] = n[o] ]_vars

\* An observe call on a tracked target returned after an earlier one on the
\* same target, and another target is still untouched.
C9_Witness ==
  /\ ret.call = "observe" /\ ret.error = ""
  /\ n[ret.target] = 3
  /\ \E o \in Targets : n[o] = 1 /\ mu[o] = 0

\* C10: observe with a target id that is not tracked raises, and mu and n
\* keep their keys and their values.
C10_UnknownTargetRaises ==
  [][ \A x \in JustObserved :
        x[1] \notin Targets =>
          /\ ret'.call = "observe" /\ ret'.error # ""
          /\ mu' = mu /\ n' = n
          /\ DOMAIN mu' = Targets /\ DOMAIN n' = Targets ]_vars

\* observe("gpuu", ...) raised KeyError after an observe call that counted.
C10_Witness ==
  /\ ret.call = "observe" /\ ret.target = "gpuu" /\ ret.error = "KeyError"
  /\ \E t \in Targets : n[t] = 2

\* The members of the list decide chooses from.
ConsideredSet(slo, context) ==
  {Considered(slo, context)[i] : i \in 1..Len(Considered(slo, context))}

\* C11: with eps = 0 every decide call of the adaptive scheduler returns mode
\* "exploit" whatever random.random() drew, with eps = 1 every call returns
\* mode "explore"; an explored target is a member of the list decide chooses
\* from (the safe candidates, or all three when none is safe), and wherever
\* exploring is possible (eps > 0) every member of that list is the explored
\* target for some pair of draws.
C11_EpsExtremes ==
  /\ (ret.call = "decide" /\ ret.value.sched = "epsilon_greedy") =>
       LET d == ret.value
       IN  /\ eps = 0 => d.mode = "exploit"
           /\ eps = 100 => d.mode = "explore"
           /\ d.mode = "explore" => d.target \in ConsideredSet(d.slo, d.context)
  /\ (ret = NoReturn /\ eps > 0) =>
       \A slo \in SLOs, context \in Contexts :
         \A t \in ConsideredSet(slo, context) :
           \E u \in {0, 50, 99}, pick \in 1..Len(Considered(slo, context)) :
             LET d == EpsGreedyDecide(slo, context, u, pick, eps, mu, n)
             IN  d.mode = "explore" /\ d.target = t

\* With eps = 1 and two candidates safe, decide explored the one that is not
\* the best-scoring of them.
C11_Witness ==
  /\ eps = 100
  /\ ret.call = "decide" /\ ret.value.sched = "epsilon_greedy"
  /\ ret.value.mode = "explore"
  /\ Cardinality(ConsideredSet(ret.value.slo, ret.value.context)) = 2
  /\ ret.value.target # BestScoreDecide(ret.value.slo, ret.value.context).target
  /\ \A t \in Targets : mu[t] = 0

\* The score of a candidate, and the comparison of two scores as fractions.
ScoreOf(t, slo, context) == Score(Estimate(t, context), slo)

ScoreLess(a, b) == FracLess(a.num, a.den, b.num, b.den)

\* C12: ConstrainedBestScore.decide returns a target of the list it chooses
\* from (the safe candidates, or all three when none is safe) whose score no
\* member of the list exceeds and which every member before it in candidate
\* order (photonic, gpu, cpu) is strictly below, together with that target's
\* estimate and score.  These conditions name one target for each (slo,
\* context): the result does not depend on mu, n or any earlier call.
C12_BestScoreIsFirstMaximum ==
  (ret.call = "decide" /\ ret.value.sched = "best_score") =>
    LET d == ret.value
        safe == Considered(d.slo, d.context)
    IN  /\ d.expected = Estimate(d.target, d.context)
        /\ d.score = ScoreOf(d.target, d.slo, d.context)
        /\ \E i \in 1..Len(safe) :
             /\ safe[i] = d.target
             /\ \A j \in 1..Len(safe) :
                  ~ScoreLess(d.score, ScoreOf(safe[j], d.slo, d.context))
             /\ \A j \in 1..(i - 1) :
                  ScoreLess(ScoreOf(safe[j], d.slo, d.context), d.score)

\* After observe calls that moved mu, decide returned photonic where no
\* candidate is safe and cpu has exactly photonic's score.
C12_Witness ==
  /\ ret.call = "decide" /\ ret.value.sched = "best_score"
  /\ ret.value.target = "photonic"
  /\ SafeSet(ret.value.slo, ret.value.context) = {}
  /\ ~ScoreLess(ScoreOf("cpu", ret.value.slo, ret.value.context), ret.value.score)
  /\ mu["cpu"] > 0

\* The observe calls made so far on target t, and twice the sum of their
\* rewards.
ObservedOn(t) == {x \in DOMAIN observed : x[1] = t}

ObservedCount(t) == SumOver(observed, ObservedOn(t))

ObservedReward(t) ==
  SumOver([x \in ObservedOn(t) |-> observed[x] * Reward(x[2])], ObservedOn(t))

\* C16: in exploit mode decide returns the first target, in candidate order,
\* of the list it chooses from (the safe candidates, or all three when none
\* is safe) whose value score + mu / n no member of the list exceeds, where
\* mu is the sum of the rewards of all earlier observe calls on the target
\* and n is one more than their number.
C16_ExploitIsFirstMaximum ==
  (ret.call = "decide" /\ ret.value.sched = "epsilon_greedy"
     /\ ret.value.mode = "exploit") =>
    LET d == ret.value
        safe == Considered(d.slo, d.context)
        val(t) == Value(ScoreOf(t, d.slo, d.context),
                        ObservedReward(t), 1 + ObservedCount(t))
    IN  \E i \in 1..Len(safe) :
          /\ safe[i] = d.target
          /\ \A j \in 1..Len(safe) : ~ValueLess(val(d.target), val(safe[j]))
          /\ \A j \in 1..(i - 1) : ValueLess(val(safe[j]), val(d.target))

\* The observe calls made so far turned the exploit choice away from the
\* best-scoring candidate, to one that is later in candidate order.
C16_Witness ==
  /\ ret.call = "decide" /\ ret.value.sched = "epsilon_greedy"
  /\ ret.value.mode = "exploit"
  /\ ret.value.target = "gpu"
  /\ BestScoreDecide(ret.value.slo, ret.value.context).target = "photonic"
  /\ mu["photonic"] < 0
  /\ "gpu" \in SafeSet(ret.value.slo, ret.value.context)

\* The orders in which the observe calls made so far on t can have come.
Orderings(t) ==
  {s \in [1..ObservedCount(t) -> ObservedOn(t)] :
     \A x \in ObservedOn(t) :
       Cardinality({i \in 1..ObservedCount(t) : s[i] = x}) = observed[x]}

\* What mu[t] is after the calls of s in that order, from mu[t] = 0.
RECURSIVE FloatSum(_)
FloatSum(s) ==
  IF Len(s) = 0 THEN 0
  ELSE FloatAdd(FloatSum(SubSeq(s, 1, Len(s) - 1)), Reward(s[Len(s)][2]))

\* The sum of the absolute rewards observed on t.
ObservedAbsReward(t) ==
  SumOver([x \in ObservedOn(t) |-> observed[x] * Abs(Reward(x[2]))], ObservedOn(t))

C19_FreshGreedyIsBestScore ==
  (ret.call = "decide" /\ ret.value.sched = "epsilon_greedy"
     /\ eps = 0 /\ ObserveCount = 0) =>
    LET d == ret.value
        b == BestScoreDecide(d.slo, d.context)
    IN  /\ d.target = b.target
        /\ d.expected = b.expected

\* The fresh scheduler with eps = 0 decided where no candidate is safe and
\* photonic and cpu have the same score.
C19_Witness ==
  /\ eps = 0 /\ ObserveCount = 0
  /\ ret.call = "decide" /\ ret.value.sched = "epsilon_greedy"
  /\ SafeSet(ret.value.slo, ret.value.context) = {}
  /\ ~ScoreLess(ScoreOf("cpu", ret.value.slo, ret.value.context),
                ScoreOf("photonic", ret.value.slo, ret.value.context))

\* ----------------------------------------------------------- specifications

\* An Engine with the default Policy on which nothing was submitted.
EngineParked == EngineInit /\ policy.require_verification

\* The Engine under concurrent submit_intent invocations.
InitEngine == EngineInit /\ SchedParked /\ RaceInit

SpecEngine == InitEngine /\ [][EngineNext]_vars

\* The two schedulers, one call at a time.
InitSched == EngineParked /\ SchedInit /\ RaceInit

SpecSched == InitSched /\ [][SchedNext]_vars

\* ConstrainedEpsilonGreedy.observe called from several threads.
InitObserveRace == EngineParked /\ SchedParked /\ RaceInit

SpecObserveRace == InitObserveRace /\ [][RaceNext]_vars

\* ConstrainedEpsilonGreedy.observe, one call at a time, with rounding.
InitObserveFloat == EngineParked /\ FloatInit /\ RaceInit

SpecObserveFloat == InitObserveFloat /\ [][FloatNext]_vars

====
